---- MODULE Spec2Model ----
(***************************************************************************)
(* Model of buildbot/reporters/message.py: the status-text derivation      *)
(* functions, the template store (getTemplate), the renderer               *)
(* (renderMessage) and the two formatter pipelines                         *)
(* (format_message_for_build, formatMessageForMissingWorker).              *)
(***************************************************************************)
EXTENDS Integers, Sequences, FiniteSets, TLC

VARIABLES
    targs,      \* arguments of one call of the derivation functions
    tout,       \* what the derivation functions returned for targs
    args,       \* constructor arguments of the formatter
    status,     \* "new", "constructed" or the exception that left __init__
    fmt,        \* the formatter's attributes after __init__
    compiled,   \* template slots for which a template object was created
    errSlot,    \* the slot whose getTemplate raised, "" when none did
    inv         \* the invocations of the formatting method, by slot

vars == <<targs, tout, args, status, fmt, compiled, errSlot, inv>>

-----------------------------------------------------------------------------
(* Python values *)

\* Python None where a string is expected
None == "<None>"
\* Python None where a result code is expected
NoneResult == -99
\* Python None where a record is expected
NoneObj == [isNone |-> TRUE]

\* bool(x) of an optional string
Truthy(s) == s # None /\ s # ""
\* bool(x) of an optional result code
TruthyResult(r) == r # NoneResult /\ r # 0

\* buildbot.process.results
SUCCESS == 0
WARNINGS == 1
FAILURE == 2
SKIPPED == 3
EXCEPTION == 4
RETRY == 5
CANCELLED == 6
Results == <<"success", "warnings", "failure", "skipped", "exception", "retry", "cancelled">>

statusToString(st) ==
    IF st = NoneResult THEN "not finished"
    ELSE IF st < 0 \/ st >= Len(Results) THEN "Invalid status"
    ELSE Results[st + 1]

-----------------------------------------------------------------------------
(* Bounds *)

\* result codes range over NoneResult and -1 .. MaxCode
MaxCode == 7
\* number of invocation slots that may be in flight together
NumInv == 2

-----------------------------------------------------------------------------
(* Status text derivation *)

\* get_detected_status_text without the final else branch: text stays unset
get_detected_status_text_nofallback(mode, results, previous_results) ==
    IF results = FAILURE THEN
        IF "change" \in mode /\ previous_results # NoneResult
           /\ previous_results # results
        THEN "new failure"
        ELSE IF "problem" \in mode /\ TruthyResult(previous_results)
                /\ previous_results # FAILURE
        THEN "new failure"
        ELSE "failed build"
    ELSE IF results = WARNINGS THEN "problem in the build"
    ELSE IF results = SUCCESS THEN
        IF "change" \in mode /\ previous_results # NoneResult
           /\ previous_results # results
        THEN "restored build"
        ELSE "passing build"
    ELSE IF results = EXCEPTION THEN "build exception"
    ELSE None

\* get_detected_status_text whose "change" rule does not compare the results
get_detected_status_text_nocompare(mode, results, previous_results) ==
    IF results = FAILURE THEN
        IF "change" \in mode /\ previous_results # NoneResult
        THEN "new failure"
        ELSE IF "problem" \in mode /\ TruthyResult(previous_results)
                /\ previous_results # FAILURE
        THEN "new failure"
        ELSE "failed build"
    ELSE IF results = WARNINGS THEN "problem in the build"
    ELSE IF results = SUCCESS THEN
        IF "change" \in mode /\ previous_results # NoneResult
        THEN "restored build"
        ELSE "passing build"
    ELSE IF results = EXCEPTION THEN "build exception"
    ELSE statusToString(results) \o " build"

get_detected_status_text(mode, results, previous_results) ==
    IF results = FAILURE THEN
        IF "change" \in mode /\ previous_results # NoneResult
           /\ previous_results # results
        THEN "new failure"
        ELSE IF "problem" \in mode /\ TruthyResult(previous_results)
                /\ previous_results # FAILURE
        THEN "new failure"
        ELSE "failed build"
    ELSE IF results = WARNINGS THEN "problem in the build"
    ELSE IF results = SUCCESS THEN
        IF "change" \in mode /\ previous_results # NoneResult
           /\ previous_results # results
        THEN "restored build"
        ELSE "passing build"
    ELSE IF results = EXCEPTION THEN "build exception"
    ELSE statusToString(results) \o " build"

\* get_message_summary_text that appends the suffix to every text
get_message_summary_text_suffixed(build, results) ==
    LET t == IF Truthy(build.state_string) THEN ": " \o build.state_string ELSE ""
    IN  IF results = SUCCESS THEN "Build succeeded!" \o t
        ELSE IF results = WARNINGS THEN "Build Had Warnings" \o t
        ELSE IF results = CANCELLED THEN "Build was cancelled" \o t
        ELSE "BUILD FAILED" \o t

get_message_summary_text(build, results) ==
    LET t == IF Truthy(build.state_string) THEN ": " \o build.state_string ELSE ""
    IN  IF results = SUCCESS THEN "Build succeeded!"
        ELSE IF results = WARNINGS THEN "Build Had Warnings" \o t
        ELSE IF results = CANCELLED THEN "Build was cancelled"
        ELSE "BUILD FAILED" \o t

RECURSIVE get_message_source_stamp_text(_)
get_message_source_stamp_text(source_stamps) ==
    IF source_stamps = <<>> THEN ""
    ELSE
        LET ss == Head(source_stamps)
            s1 == IF Truthy(ss.branch) THEN "[branch " \o ss.branch \o "] " ELSE ""
            s2 == s1 \o (IF Truthy(ss.revision) THEN ss.revision ELSE "HEAD")
            source == s2 \o (IF ss.patch # None THEN " (plus patch)" ELSE "")
            discriminator == IF Truthy(ss.codebase) THEN " '" \o ss.codebase \o "'" ELSE ""
        IN  "Build Source Stamp" \o discriminator \o ": " \o source \o "\n"
            \o get_message_source_stamp_text(Tail(source_stamps))

\* ', '.join(list(s)) for every iteration order of the set s
RECURSIVE Joins(_)
Joins(s) ==
    IF Cardinality(s) = 1 THEN s
    ELSE UNION {{p \o ", " \o rest : rest \in Joins(s \ {p})} : p \in s}

\* the texts get_projects_text may return (set iteration order is not fixed)
get_projects_text(source_stamps, master) ==
    LET projects == {source_stamps[n].project : n \in
                        {m \in DOMAIN source_stamps : Truthy(source_stamps[m].project)}}
    IN  IF projects = {} THEN {master.config.title} ELSE Joins(projects)

-----------------------------------------------------------------------------
(* Python dicts as functions *)

EmptyDict == <<>>
\* d.update(e)
Update(d, e) == e @@ d
\* d.update(e) with the precedence reversed: the entries of d win
UpdateKeepOld(d, e) == d @@ e
\* del d[k] for k in ks
Remove(d, ks) == [k \in (DOMAIN d) \ ks |-> d[k]]

-----------------------------------------------------------------------------
(* Template store *)

\* os.path.join(os.path.dirname(__file__), "templates")
BundledDir == "<module>/templates"

\* the template files of a directory: name -> whether the file parses and the
\* context keys it references
Files(dirname) ==
    IF dirname = BundledDir
    THEN ("default_mail.txt" :>
              [ok |-> TRUE, refs |-> {"status_detected", "summary", "buildername"}])
         @@ ("missing_mail.txt" :> [ok |-> TRUE, refs |-> {"buildbot_title", "worker"}])
    ELSE ("custom.txt" :> [ok |-> TRUE, refs |-> {"extra"}])
         @@ ("broken.txt" :> [ok |-> FALSE, refs |-> {}])

\* an inline template that does not parse
Malformed == "{% if %}"

\* the context keys an inline template references
TemplateRefs(content) ==
    IF content = "{{ summary }}" THEN {"summary"}
    ELSE IF content = "{{ extra }}" THEN {"extra"}
    ELSE {}

\* jinja2.Template(content): raises on a template that does not parse; the
\* template made has the default Undefined, which renders as ""
jinja2_Template(content) ==
    IF content = Malformed
    THEN [raise |-> "TemplateSyntaxError", made |-> FALSE, value |-> NoneObj]
    ELSE [raise |-> "", made |-> TRUE,
          value |-> [strict |-> FALSE, refs |-> TemplateRefs(content)]]

\* env.get_template(filename) of a StrictUndefined environment over dirname
get_template(dirname, filename) ==
    IF filename \notin DOMAIN Files(dirname)
    THEN [raise |-> "TemplateNotFound", made |-> FALSE, value |-> NoneObj]
    ELSE IF ~Files(dirname)[filename].ok
    THEN [raise |-> "TemplateSyntaxError", made |-> FALSE, value |-> NoneObj]
    ELSE [raise |-> "", made |-> TRUE,
          value |-> [strict |-> TRUE, refs |-> Files(dirname)[filename].refs]]

\* config.error(msg) that records the error and returns to its caller
config_error_recorded == ""

\* config.error(msg): the exception it raises ("" would be a return)
config_error == "ConfigError"

\* getTemplate: raise is the exception raised ("" for none), made tells whether
\* a template object was created, value is the template returned
getTemplate(self, filename, dirname, content) ==
    LET checked == IF Truthy(content) /\ (Truthy(filename) \/ Truthy(dirname))
                   THEN config_error ELSE ""
    IN  IF checked # ""
        THEN [raise |-> checked, made |-> FALSE, value |-> NoneObj]
        ELSE IF Truthy(content)
        THEN jinja2_Template(content)
        ELSE
            LET dir == IF dirname = None THEN BundledDir ELSE dirname
                name == IF filename = None THEN self.template_filename ELSE filename
            IN  get_template(dir, name)

\* the class attributes of the two formatter classes
ClassAttrs(kind) ==
    IF kind = "build"
    THEN [template_filename |-> "default_mail.txt", template_type |-> "plain"]
    ELSE [template_filename |-> "missing_mail.txt", template_type |-> "plain"]

\* MessageFormatter.__init__: the deprecated template_name replaces template_filename
EffectiveFilename(a) ==
    IF a.kind = "build" /\ a.template_name # None THEN a.template_name
    ELSE a.template_filename

\* MessageFormatterBase.__init__: raise is the exception that left the
\* constructor, slot the template slot that raised it, compiled the slots for
\* which a template object was created, self the new object's attributes
MessageFormatterBase_init(a) ==
    LET self == ClassAttrs(a.kind)
        body == getTemplate(self, EffectiveFilename(a), a.template_dir, a.template)
        wantSubject == Truthy(a.subject_filename) \/ Truthy(a.subject)
        subj == getTemplate(self, a.subject_filename, a.template_dir, a.subject)
        attrs == [body_template |-> body.value,
                  subject_template |-> IF wantSubject THEN subj.value ELSE NoneObj,
                  template_type |-> IF a.template_type # None THEN a.template_type
                                    ELSE self.template_type,
                  ctx |-> IF a.ctx = NoneObj THEN EmptyDict ELSE a.ctx]
    IN  IF body.raise # ""
        THEN [raise |-> body.raise, slot |-> "body",
              compiled |-> IF body.made THEN {"body"} ELSE {}, self |-> NoneObj]
        ELSE IF wantSubject /\ subj.raise # ""
        THEN [raise |-> subj.raise, slot |-> "subject",
              compiled |-> IF subj.made THEN {"body", "subject"} ELSE {"body"},
              self |-> NoneObj]
        ELSE [raise |-> "", slot |-> "",
              compiled |-> IF wantSubject THEN {"body", "subject"} ELSE {"body"},
              self |-> attrs]

-----------------------------------------------------------------------------
(* Renderer *)

\* Template.render(ctx): value maps each referenced key to what is substituted
\* for it; a strict template raises on a key the context lacks, another one
\* substitutes the empty string
TemplateRender(t, ctx) ==
    IF t.strict /\ \E k \in t.refs : k \notin DOMAIN ctx
    THEN [raise |-> "UndefinedError", value |-> EmptyDict]
    ELSE [raise |-> "",
          value |-> [k \in t.refs |-> IF k \in DOMAIN ctx THEN ctx[k] ELSE ""]]

\* renderMessage that always adds a subject
renderMessageAlwaysSubject(self, ctx) ==
    LET body == TemplateRender(self.body_template, ctx)
        st == IF self.subject_template # NoneObj THEN self.subject_template
              ELSE self.body_template
        subject == TemplateRender(st, ctx)
    IN  IF body.raise # "" THEN [raise |-> body.raise, value |-> NoneObj]
        ELSE IF subject.raise # "" THEN [raise |-> subject.raise, value |-> NoneObj]
        ELSE [raise |-> "",
              value |-> [body |-> body.value, type |-> self.template_type,
                         subject |-> subject.value]]

renderMessage(self, ctx) ==
    LET body == TemplateRender(self.body_template, ctx)
        msgdict == [body |-> body.value, type |-> self.template_type]
    IN  IF body.raise # "" THEN [raise |-> body.raise, value |-> NoneObj]
        ELSE IF self.subject_template # NoneObj
        THEN LET subject == TemplateRender(self.subject_template, ctx)
             IN  IF subject.raise # ""
                 THEN [raise |-> subject.raise, value |-> NoneObj]
                 ELSE [raise |-> "",
                       value |-> [body |-> body.value, type |-> self.template_type,
                                  subject |-> subject.value]]
        ELSE [raise |-> "", value |-> msgdict]

-----------------------------------------------------------------------------
(* Inputs of the formatting methods *)

\* utils.getURLForBuild(master, builderid, build_number)
getURLForBuild(master, builderid, build_number) ==
    master.config.buildbotURL \o "#builders/" \o ToString(builderid)
        \o "/builds/" \o ToString(build_number)

Master == [config |-> [title |-> "Buildbot", buildbotURL |-> "http://localhost:8080/"]]

Stamp(branch, revision, patch, codebase, project) ==
    [branch |-> branch, revision |-> revision, patch |-> patch,
     codebase |-> codebase, project |-> project]

\* a failed build after a successful one
BuildFailed ==
    [results |-> FAILURE, state_string |-> "compiling", number |-> 7,
     builder |-> [builderid |-> 1, name |-> "runtests"],
     properties |-> [workername |-> <<"wrk", "Worker">>],
     buildset |-> [sourcestamps |-> <<Stamp("main", "abc123", None, "", "A")>>],
     prev_build |-> [results |-> SUCCESS]]

\* a successful build with no 'prev_build' key and no 'workername' property
BuildPassed ==
    [results |-> SUCCESS, state_string |-> None, number |-> 8,
     builder |-> [builderid |-> 1, name |-> "runtests"],
     properties |-> EmptyDict,
     buildset |-> [sourcestamps |-> <<Stamp(None, None, "patch", "cb", "A"),
                                      Stamp("dev", "f00", None, "lib", "B")>>]]

\* a cancelled build whose 'prev_build' is None
BuildCancelled ==
    [results |-> CANCELLED, state_string |-> "", number |-> 9,
     builder |-> [builderid |-> 2, name |-> "docs"],
     properties |-> [workername |-> <<"wrk2", "Worker">>],
     buildset |-> [sourcestamps |-> <<>>],
     prev_build |-> NoneObj]

BuildInputs ==
    { [mode |-> {"change"}, buildername |-> "runtests", build |-> BuildFailed,
       master |-> Master, blamelist |-> <<"dev@example.org">>],
      [mode |-> {"problem", "failing"}, buildername |-> "runtests", build |-> BuildPassed,
       master |-> Master, blamelist |-> <<>>],
      [mode |-> {"change", "problem"}, buildername |-> "docs", build |-> BuildCancelled,
       master |-> Master, blamelist |-> <<>>] }

WorkerInputs ==
    { [master |-> Master, worker |-> [name |-> w, notify |-> <<"admin@example.org">>]]
        : w \in {"wrk", "wrk2"} }

Inputs(kind) == IF kind = "build" THEN BuildInputs ELSE WorkerInputs

\* buildAdditionalContext as overridden by a subclass: async tells whether it
\* returns an unfired Deferred, raises whether it raises, upd and del what it
\* sets and deletes in ctx
HookOf(async, raises, upd, del) ==
    [async |-> async, raises |-> raises, upd |-> upd, del |-> del]

\* MessageFormatterBase.buildAdditionalContext: pass
DefaultHook == HookOf(FALSE, FALSE, EmptyDict, {})

Hooks ==
    { DefaultHook,
      HookOf(FALSE, FALSE, [extra |-> "hook"], {}),
      HookOf(TRUE, FALSE, [summary |-> "hook", buildbot_url |-> "hook"], {}),
      HookOf(TRUE, FALSE, EmptyDict, {"summary", "worker"}),
      HookOf(FALSE, TRUE, EmptyDict, {}) }

-----------------------------------------------------------------------------
(* Formatting pipelines *)

\* format_message_for_build, lines 199-224: the possible contexts (one per
\* iteration order of the projects set)
BuildContexts(inp) ==
    LET build == inp.build
        buildset == build.buildset
        ss_list == buildset.sourcestamps
        results == build.results
        previous_results ==
            IF "prev_build" \in DOMAIN build /\ build.prev_build # NoneObj
            THEN build.prev_build.results
            ELSE NoneResult
    IN  { [results |-> build.results,
           mode |-> inp.mode,
           buildername |-> inp.buildername,
           workername |-> IF "workername" \in DOMAIN build.properties
                          THEN build.properties.workername[1] ELSE "<unknown>",
           buildset |-> buildset,
           build |-> build,
           projects |-> projects,
           previous_results |-> previous_results,
           status_detected |-> get_detected_status_text(inp.mode, results, previous_results),
           build_url |-> getURLForBuild(inp.master, build.builder.builderid, build.number),
           buildbot_url |-> inp.master.config.buildbotURL,
           blamelist |-> inp.blamelist,
           summary |-> get_message_summary_text(build, results),
           sourcestamps |-> get_message_source_stamp_text(ss_list)]
          : projects \in get_projects_text(ss_list, inp.master) }

\* formatMessageForMissingWorker, lines 236-238
WorkerContexts(inp) ==
    { [buildbot_title |-> inp.master.config.title,
       buildbot_url |-> inp.master.config.buildbotURL,
       worker |-> inp.worker] }

Contexts(kind, inp) == IF kind = "build" THEN BuildContexts(inp) ELSE WorkerContexts(inp)

\* what the hook does to ctx
HookEffect(ctx, hook) == Remove(Update(ctx, hook.upd), hook.del)

\* an invocation slot with no call in it
Idle ==
    [pc |-> "idle", input |-> NoneObj, hook |-> DefaultHook, base |-> EmptyDict,
     ctx |-> EmptyDict, rctx |-> EmptyDict, steps |-> <<>>, msg |-> NoneObj, err |-> ""]

\* self.ctx merged first, so that the computed entries win
MergeExtraKeepComputed(self, ctx) == UpdateKeepOld(ctx, self.ctx)

\* ctx.update(self.ctx)
MergeExtra(self, ctx) == Update(ctx, self.ctx)

\* the rest of the generator once the yield has returned (lines 226-228 and
\* 240-242): r.ctx is the generator's ctx as the hook left it
Finish(self, r) ==
    LET ctx == MergeExtra(self, r.ctx)
        m == renderMessage(self, ctx)
    IN  [r EXCEPT !.rctx = ctx,
                  !.steps = @ \o <<"merge", "render">>,
                  !.pc = IF m.raise = "" THEN "done" ELSE "failed",
                  !.msg = m.value,
                  !.err = m.raise]

\* the generator's frame when the hook has completed
HookDone(r) ==
    [r EXCEPT !.ctx = HookEffect(r.ctx, r.hook), !.steps = @ \o <<"hook_done">>]

\* the generator run without waiting for the hook's Deferred
RunToYieldNoWait(self, inp, ctx, hook) ==
    LET r == [Idle EXCEPT !.input = inp, !.hook = hook, !.base = ctx, !.ctx = ctx,
                          !.steps = <<"assemble", "hook">>]
    IN  IF hook.raises THEN [r EXCEPT !.pc = "failed", !.err = "HookError"]
        ELSE IF hook.async THEN [Finish(self, r) EXCEPT !.pc = "suspended"]
        ELSE Finish(self, HookDone(r))

\* the generator from its start to the yield of line 225 or 239, and beyond it
\* when the hook did not return an unfired Deferred
RunToYield(self, inp, ctx, hook) ==
    LET r == [Idle EXCEPT !.input = inp, !.hook = hook, !.base = ctx, !.ctx = ctx,
                          !.steps = <<"assemble", "hook">>]
    IN  IF hook.raises THEN [r EXCEPT !.pc = "failed", !.err = "HookError"]
        ELSE IF hook.async THEN [r EXCEPT !.pc = "suspended"]
        ELSE Finish(self, HookDone(r))

-----------------------------------------------------------------------------
(* State machine *)

Slots == 1 .. NumInv

Codes == {NoneResult} \cup (-1 .. MaxCode)
Modes == SUBSET {"change", "problem", "failing"}
StateStrings == {None, "", "compiling"}

TextArgs ==
    [mode : Modes, results : Codes, previous_results : Codes,
     build : [state_string : StateStrings]]

DefaultTextArgs ==
    [mode |-> {}, results |-> SUCCESS, previous_results |-> NoneResult,
     build |-> [state_string |-> None]]

NoText == [called |-> {}, status |-> "", summary |-> ""]

Filenames == {None, "", "custom.txt", "absent.txt", "broken.txt"}
Contents == {None, "", "{{ summary }}", "{{ extra }}", Malformed}
ExtraCtxs == {NoneObj, [extra |-> "cfg", summary |-> "cfg", buildbot_url |-> "cfg"]}

\* every way of calling the two constructors
AllArgs ==
    { a \in [kind : {"build", "worker"}, template_dir : {None, "tdir"},
             template_filename : Filenames, template_name : {None, "custom.txt"},
             template : Contents, subject_filename : Filenames, subject : Contents,
             template_type : {None, "html"}, ctx : {NoneObj, [extra |-> "cfg"]}]
        : a.kind = "worker" => a.template_name = None }

\* the formatters the pipelines are run with
PipelineArgs ==
    { a \in [kind : {"build", "worker"}, template_dir : {None}, template_filename : {None},
             template_name : {None}, template : {None, "{{ extra }}"},
             subject_filename : {None}, subject : {None},
             template_type : {None}, ctx : ExtraCtxs] : TRUE }

InitFormatter ==
    /\ status = "new"
    /\ fmt = NoneObj
    /\ compiled = {}
    /\ errSlot = ""
    /\ inv = [i \in Slots |-> Idle]

Init ==
    /\ targs = DefaultTextArgs
    /\ tout = NoText
    /\ args \in PipelineArgs
    /\ InitFormatter

InitConfig ==
    /\ targs = DefaultTextArgs
    /\ tout = NoText
    /\ args \in AllArgs
    /\ InitFormatter

InitText ==
    /\ targs \in TextArgs
    /\ tout = NoText
    /\ args = CHOOSE a \in PipelineArgs : TRUE
    /\ InitFormatter

formatterVars == <<args, status, fmt, compiled, errSlot, inv>>

\* a call of get_detected_status_text
DetectStatus ==
    /\ "status" \notin tout.called
    /\ tout' = [tout EXCEPT !.called = @ \cup {"status"},
                            !.status = get_detected_status_text(
                                targs.mode, targs.results, targs.previous_results)]
    /\ UNCHANGED <<targs, formatterVars>>

\* a call of get_message_summary_text
SummaryText ==
    /\ "summary" \notin tout.called
    /\ tout' = [tout EXCEPT !.called = @ \cup {"summary"},
                            !.summary = get_message_summary_text(targs.build, targs.results)]
    /\ UNCHANGED <<targs, formatterVars>>

\* MessageFormatter(...) or MessageFormatterMissingWorker(...)
Construct ==
    /\ status = "new"
    /\ LET r == MessageFormatterBase_init(args)
       IN  /\ status' = IF r.raise = "" THEN "constructed" ELSE r.raise
           /\ fmt' = r.self
           /\ compiled' = r.compiled
           /\ errSlot' = r.slot
    /\ UNCHANGED <<targs, tout, args, inv>>

\* a call of format_message_for_build or formatMessageForMissingWorker
Call(i) ==
    /\ status = "constructed"
    /\ inv[i].pc = "idle"
    /\ \E inp \in Inputs(args.kind), hook \in Hooks :
        \E ctx \in Contexts(args.kind, inp) :
            inv' = [inv EXCEPT ![i] = RunToYield(fmt, inp, ctx, hook)]
    /\ UNCHANGED <<targs, tout, args, status, fmt, compiled, errSlot>>

\* the frame of a generator resumed with a ctx that is not its own, as if ctx
\* were kept on the formatter
SharedFrame(i) ==
    LET j == CHOOSE k \in Slots : inv[k].pc = "suspended"
    IN  [inv[i] EXCEPT !.ctx = inv[j].ctx]

\* the frame of the generator of slot i: its local variables
Frame(i) == inv[i]

\* the hook's Deferred fires: the generator resumes after the yield
HookFired(i) ==
    /\ inv[i].pc = "suspended"
    /\ inv' = [inv EXCEPT ![i] = Finish(fmt, HookDone(Frame(i)))]
    /\ UNCHANGED <<targs, tout, args, status, fmt, compiled, errSlot>>

\* the hook's Deferred fails: the failure is raised at the yield
HookFailed(i) ==
    /\ inv[i].pc = "suspended"
    /\ inv' = [inv EXCEPT ![i] = [@ EXCEPT !.pc = "failed", !.err = "HookError"]]
    /\ UNCHANGED <<targs, tout, args, status, fmt, compiled, errSlot>>

\* a cancellation that the generator catches, going on after the yield
CancelSwallowed(i) ==
    /\ inv[i].pc = "suspended"
    /\ inv' = [inv EXCEPT ![i] = [Finish(fmt, Frame(i)) EXCEPT !.pc = "cancelled"]]
    /\ UNCHANGED <<targs, tout, args, status, fmt, compiled, errSlot>>

\* the caller cancels the Deferred of the call: CancelledError is raised at the
\* yield, which nothing in the generator catches
Cancel(i) ==
    /\ inv[i].pc = "suspended"
    /\ inv' = [inv EXCEPT ![i] = [@ EXCEPT !.pc = "cancelled", !.err = "CancelledError"]]
    /\ UNCHANGED <<targs, tout, args, status, fmt, compiled, errSlot>>

\* the caller has taken the result or the failure: the slot is free again
Collect(i) ==
    /\ inv[i].pc \in {"done", "failed", "cancelled"}
    /\ inv' = [inv EXCEPT ![i] = Idle]
    /\ UNCHANGED <<targs, tout, args, status, fmt, compiled, errSlot>>

Next ==
    \/ Construct
    \/ \E i \in Slots : Call(i)
    \/ \E i \in Slots : HookFired(i)
    \/ \E i \in Slots : HookFailed(i)
    \/ \E i \in Slots : Cancel(i)
    \/ \E i \in Slots : Collect(i)

NextConfig ==
    \/ Construct
    \/ Call(1)
    \/ HookFired(1)
    \/ HookFailed(1)
    \/ Cancel(1)
    \/ Collect(1)

NextText ==
    \/ DetectStatus
    \/ SummaryText

\* the pipelines of one formatter, NumInv calls in flight
Spec == Init /\ [][Next]_vars

\* every constructor call, one call in flight
SpecConfig == InitConfig /\ [][NextConfig]_vars

\* the derivation functions on every input
SpecText == InitText /\ [][NextText]_vars

-----------------------------------------------------------------------------
(* Properties *)

\* the context keys the templates of a formatter reference
ReferencedKeys(self) ==
    self.body_template.refs
    \cup (IF self.subject_template # NoneObj THEN self.subject_template.refs ELSE {})

\* C1: a formatter, whether its templates are inline or files, never returns a
\* message from a render whose context lacks a key the templates reference
C1_MissingKeyNeverRendered ==
    \A i \in Slots :
        inv[i].pc = "done" => ReferencedKeys(fmt) \subseteq DOMAIN inv[i].rctx

\* the slot was given non-empty inline content together with a filename or a
\* search directory
SlotGivenBoth(a, slot) ==
    IF slot = "body"
    THEN Truthy(a.template) /\ (Truthy(EffectiveFilename(a)) \/ Truthy(a.template_dir))
    ELSE Truthy(a.subject) /\ (Truthy(a.subject_filename) \/ Truthy(a.template_dir))

TemplateSlots == {"body", "subject"}

NothingRendered == \A i \in Slots : inv[i] = Idle

\* C2 as stated: a slot given both inline content and a filename or directory
\* makes construction fail with a configuration error, before a template of
\* that slot is compiled and before any render; a slot given only one of the
\* two does not raise that error
C2_Original ==
    status # "new" =>
        \A slot \in TemplateSlots :
            /\ SlotGivenBoth(args, slot) =>
                  status = "ConfigError" /\ slot \notin compiled /\ NothingRendered
            /\ ~SlotGivenBoth(args, slot) => ~(status = "ConfigError" /\ errSlot = slot)

\* the exceptions that resolving a template may raise besides the
\* configuration error
ResolutionErrors == {"TemplateNotFound", "TemplateSyntaxError"}

\* C2 amended: such a slot makes construction fail before a template of that
\* slot is compiled and before any render; the body slot fails with the
\* configuration error; the subject slot fails with the configuration error
\* when the body template was resolved, and otherwise the error of the body's
\* resolution (template not found, template syntax error) leaves the
\* constructor first; a slot given only one of the two does not raise the
\* configuration error
C2_ConfigErrorBeforeCompile ==
    status # "new" =>
        /\ SlotGivenBoth(args, "body") =>
              status = "ConfigError" /\ errSlot = "body" /\ compiled = {}
              /\ NothingRendered
        /\ SlotGivenBoth(args, "subject") =>
              /\ status # "constructed" /\ fmt = NoneObj
              /\ errSlot \in TemplateSlots
              /\ errSlot = "subject" => status = "ConfigError" /\ compiled = {"body"}
              /\ (errSlot = "body" /\ ~SlotGivenBoth(args, "body")) =>
                    status \in ResolutionErrors /\ compiled = {}
              /\ "subject" \notin compiled
              /\ NothingRendered
        /\ \A slot \in TemplateSlots :
              ~SlotGivenBoth(args, slot) => ~(status = "ConfigError" /\ errSlot = slot)

\* C2: the body's syntax error leaves the constructor before the subject slot,
\* which was given both, is looked at
C2_SyntaxErrorFirst ==
    /\ status = "TemplateSyntaxError" /\ errSlot = "body"
    /\ SlotGivenBoth(args, "subject")

C2_Witness ==
    /\ status = "ConfigError" /\ errSlot = "subject" /\ compiled = {"body"}
    /\ SlotGivenBoth(args, "subject") /\ ~SlotGivenBoth(args, "body")

\* C3: the context handed to the renderer maps every key of the extra-context
\* map to the extra-context value, keeps every other entry as the computed
\* context and the hook left it, and removes no key
C3_ExtraContextWins ==
    \A i \in Slots :
        "merge" \in {inv[i].steps[n] : n \in DOMAIN inv[i].steps} =>
            /\ \A k \in DOMAIN fmt.ctx : inv[i].rctx[k] = fmt.ctx[k]
            /\ \A k \in (DOMAIN inv[i].ctx) \ (DOMAIN fmt.ctx) :
                  k \in DOMAIN inv[i].rctx /\ inv[i].rctx[k] = inv[i].ctx[k]
            /\ DOMAIN inv[i].rctx = (DOMAIN inv[i].ctx) \cup (DOMAIN fmt.ctx)

C3_Witness ==
    \E i \in Slots :
        /\ inv[i].pc = "done"
        /\ \E k \in (DOMAIN fmt.ctx) \cap (DOMAIN inv[i].hook.upd) \cap (DOMAIN inv[i].base) :
              /\ inv[i].hook.upd[k] # fmt.ctx[k]
              /\ inv[i].base[k] # fmt.ctx[k]
              /\ inv[i].rctx[k] = fmt.ctx[k]
        /\ \E k \in (DOMAIN inv[i].rctx) \ (DOMAIN fmt.ctx) : TRUE

PipelineSteps == <<"assemble", "hook", "hook_done", "merge", "render">>

IsPrefix(s, t) == Len(s) <= Len(t) /\ \A n \in DOMAIN s : s[n] = t[n]

\* C4: the steps of an invocation are a prefix of assemble, hook, hook
\* completed, merge, render: each at most once, in that order, the hook called
\* once, and no merge or render while the hook has not completed
C4_LinearPipeline ==
    \A i \in Slots :
        /\ IsPrefix(inv[i].steps, PipelineSteps)
        /\ inv[i].pc # "idle" => Len(inv[i].steps) >= 2
        /\ inv[i].pc = "suspended" => inv[i].steps = <<"assemble", "hook">>
        /\ inv[i].pc = "done" => inv[i].steps = PipelineSteps

C4_Witness ==
    \E i \in Slots :
        inv[i].pc = "done" /\ inv[i].hook.async /\ inv[i].steps = PipelineSteps

\* the message of a call that runs alone
SoloMessage(a, base, hook) ==
    LET self == MessageFormatterBase_init(a).self
    IN  renderMessage(self, Update(HookEffect(base, hook), self.ctx))

\* C5: with calls interleaved at the hook, each call has its own context, a
\* returned message is the message the call returns when it runs alone, and
\* the formatter's templates and extra context stay as constructed
C5_CallsIndependent ==
    /\ status = "constructed" => fmt = MessageFormatterBase_init(args).self
    /\ \A i \in Slots :
          inv[i].pc # "idle" =>
              /\ inv[i].base \in Contexts(args.kind, inv[i].input)
              /\ inv[i].pc = "suspended" => inv[i].ctx = inv[i].base
              /\ inv[i].pc = "done" =>
                    /\ SoloMessage(args, inv[i].base, inv[i].hook).raise = ""
                    /\ inv[i].msg = SoloMessage(args, inv[i].base, inv[i].hook).value

C5_Witness ==
    \E i, j \in Slots :
        /\ i < j
        /\ inv[i].pc = "suspended"
        /\ inv[j].pc = "done" /\ inv[j].hook.async
        /\ inv[i].input # inv[j].input
        /\ inv[j].msg # SoloMessage(args, inv[i].base, inv[j].hook).value

\* C6: an invocation cancelled while its hook is suspended has merged nothing,
\* rendered nothing and returns no message
C6_CancelAbandons ==
    \A i \in Slots :
        inv[i].pc = "cancelled" =>
            /\ inv[i].steps = <<"assemble", "hook">>
            /\ inv[i].rctx = EmptyDict
            /\ inv[i].msg = NoneObj
            /\ inv[i].err = "CancelledError"

C6_Witness ==
    \E i \in Slots : inv[i].pc = "cancelled" /\ inv[i].hook.async

NineTexts ==
    {"new failure", "failed build", "problem in the build", "restored build",
     "passing build", "build exception", "skipped build", "retry build",
     "cancelled build"}

\* C7 as stated: for every mode, result and previous result the text is one of
\* the nine texts
C7_Original ==
    "status" \in tout.called => tout.status \in NineTexts

\* C7 amended: the text is never empty and never null; it is one of the nine
\* texts for the result codes 0..6, "not finished build" for a result of None
\* and "Invalid status build" for any other code
C7_TextAlwaysDefined ==
    "status" \in tout.called =>
        /\ tout.status # None /\ tout.status # ""
        /\ targs.results \in 0 .. 6 => tout.status \in NineTexts
        /\ targs.results = NoneResult => tout.status = "not finished build"
        /\ targs.results \notin (0 .. 6) \cup {NoneResult} =>
              tout.status = "Invalid status build"

C7_Witness ==
    /\ "status" \in tout.called
    /\ targs.results = NoneResult
    /\ tout.status = "not finished build"

\* C8: for a FAILURE the text is "new failure" when the mode has "change" and
\* the previous result is known and is not FAILURE, else "new failure" when the
\* mode has "problem" and the previous result is known, not zero and not
\* FAILURE, else "failed build"; an unchanged result never gives "new failure"
C8_FailureText ==
    ("status" \in tout.called /\ targs.results = FAILURE) =>
        LET prev == targs.previous_results
            changeRule == "change" \in targs.mode /\ prev # NoneResult /\ prev # FAILURE
            problemRule == "problem" \in targs.mode /\ prev # NoneResult /\ prev # 0
                           /\ prev # FAILURE
        IN  /\ changeRule => tout.status = "new failure"
            /\ (~changeRule /\ problemRule) => tout.status = "new failure"
            /\ (~changeRule /\ ~problemRule) => tout.status = "failed build"
            /\ prev = FAILURE => tout.status # "new failure"

C8_Witness ==
    /\ "status" \in tout.called
    /\ targs.results = FAILURE /\ targs.previous_results = FAILURE
    /\ targs.mode = {"change", "problem"}
    /\ tout.status = "failed build"

\* C9: the summary is "Build succeeded!" for SUCCESS, "Build Had Warnings" and
\* the suffix for WARNINGS, "Build was cancelled" for CANCELLED and "BUILD
\* FAILED" and the suffix for any other code; the suffix is ": " and the state
\* string when that is non-empty and is never in the SUCCESS and CANCELLED texts
C9_SummaryText ==
    "summary" \in tout.called =>
        LET st == targs.build.state_string
            suffix == IF st # None /\ st # "" THEN ": " \o st ELSE ""
        IN  /\ targs.results = SUCCESS => tout.summary = "Build succeeded!"
            /\ targs.results = WARNINGS => tout.summary = "Build Had Warnings" \o suffix
            /\ targs.results = CANCELLED => tout.summary = "Build was cancelled"
            /\ targs.results \notin {SUCCESS, WARNINGS, CANCELLED} =>
                  tout.summary = "BUILD FAILED" \o suffix

C9_Witness ==
    /\ "summary" \in tout.called
    /\ targs.results = CANCELLED
    /\ targs.build.state_string = "compiling"
    /\ tout.summary = "Build was cancelled"

\* C10: a returned message has a body and a type, has a subject exactly when a
\* subject filename or a non-empty inline subject was configured, and its type
\* is the configured template_type, else the class default
C10_MessageShape ==
    \A i \in Slots :
        inv[i].pc = "done" =>
            /\ DOMAIN inv[i].msg =
                  {"body", "type"} \cup
                  (IF Truthy(args.subject_filename) \/ Truthy(args.subject)
                   THEN {"subject"} ELSE {})
            /\ inv[i].msg.type = IF args.template_type # None THEN args.template_type
                                 ELSE ClassAttrs(args.kind).template_type

C10_Witness ==
    \E i \in Slots :
        /\ inv[i].pc = "done"
        /\ "subject" \in DOMAIN inv[i].msg
        /\ inv[i].msg.type = "html"

====
